---- MODULE Spec2Model ----
(***************************************************************************)
(* Model of assets/search.js: the client-side search of org-static-blog.   *)
(*                                                                         *)
(* A JavaScript string is a sequence of one-character strings.  Indices    *)
(* into strings keep the 0-based values the source uses (At, slice).       *)
(* The markup the code inserts (<mark>, </mark>, "...") is kept as single  *)
(* tokens so that it is told apart from characters copied from a post.     *)
(***************************************************************************)
EXTENDS Integers, Sequences, FiniteSets, TLC

VARIABLES
    \* ---- getAllSnippets, one call (lines 124-171)
    content,        \* parameter content
    query,          \* parameter query
    headers,        \* parameter headers
    lastIndex,      \* regex.lastIndex
    index,          \* match.index of the latest iteration (-1 before the first)
    snippets,       \* the local array snippets
    windows,        \* per pushed snippet: the locals index, start, end
    scanPc,         \* "idle" | "scan" | "done"
    \* ---- findNearestHeader, one call (lines 182-192, 155-162)
    queryIndex,     \* parameter queryIndex
    anchor,         \* the anchor the snippet gets
    anchorPc,       \* "idle" | "call" | "done"
    \* ---- the callback of postUrls.map, one document (lines 217-268)
    postDoc,        \* the parsed document
    post,           \* the object the callback returns
    parsePc,        \* "idle" | "parse" | "done" | "threw"
    \* ---- the page (lines 4-33, 205-277)
    manifest,       \* what assets/post-list.json holds
    site,           \* url -> the document served there
    loaderPc,       \* where fetchAllPosts stands
    docTask,        \* url -> where the callback of postUrls.map stands
    docPost,        \* url -> what that callback returned
    loadPromise,    \* the promise fetchAllPosts() returned
    thenPc,         \* "waiting" | "ran": the callback of line 12
    allPosts,       \* the variable allPosts of line 8
    value,          \* searchInput.value at the latest input event
    events,         \* number of input events handled
    contentDisplay, \* content.style.display
    resultsDisplay, \* searchResults.style.display
    panel           \* the children of searchResults

scanVars == <<content, query, headers, lastIndex, index, snippets, windows, scanPc>>
anchorVars == <<queryIndex, anchor, anchorPc>>
parseVars == <<postDoc, post, parsePc>>
netVars == <<manifest, site>>
loadVars == <<loaderPc, docTask, docPost, loadPromise, thenPc, allPosts>>
uiVars == <<value, events, contentDisplay, resultsDisplay, panel>>

vars == <<scanVars, anchorVars, parseVars, netVars, loadVars, uiVars>>

----------------------------------------------------------------------------
\* Bounds of the model
MaxPieces == 5      \* a scanned text is made of at most this many pieces
FillLen == 31       \* length of the filler word used to build long texts

\* Program constants
contextSize == 30   \* line 128
MinQueryLength == 2 \* line 20

----------------------------------------------------------------------------
\* Characters and strings

\* the character U+0060, which a TLA+ string cannot hold
Backtick == "backtick"

MarkOpen == "<mark>"
MarkClose == "</mark>"
Ellipsis == "..."

Min(a, b) == IF a < b THEN a ELSE b
Max(a, b) == IF a > b THEN a ELSE b
MinOf(S) == CHOOSE x \in S : \A y \in S : x <= y
MaxOf(S) == CHOOSE x \in S : \A y \in S : x >= y

\* content[i]
At(s, i) == s[i + 1]

\* s.slice(a, b)
slice(s, a, b) == SubSeq(s, a + 1, b)

\* the class \s, restricted to the characters of the model
Whitespace == {" ", "\n"}
isSpace(c) == c \in Whitespace

\* the case folding of the regex flag "i"
Fold(c) == IF c = "A" THEN "a" ELSE IF c = "B" THEN "b" ELSE c

\* the indices (from 1) of the characters of s that are not whitespace
inkIn(s) == {i \in 1..Len(s) : ~isSpace(s[i])}

\* s.replace(/\s+/g, " "): a run of whitespace becomes one space
collapse(s) ==
    SelectSeq([i \in 1..Len(s) |->
                  IF ~isSpace(s[i]) THEN s[i]
                  ELSE IF i > 1 /\ isSpace(s[i - 1]) THEN "" ELSE " "],
              LAMBDA c : c # "")

\* s.trim()
trim(s) == IF inkIn(s) = {} THEN <<>> ELSE SubSeq(s, MinOf(inkIn(s)), MaxOf(inkIn(s)))

\* s.replace(/[...]/g, "")
removeChars(s, set) == SelectSeq(s, LAMBDA c : c \notin set)

\* text.replace(/\s+/g, " ").trim()
normalize(s) == trim(collapse(s))

----------------------------------------------------------------------------
\* Regular expressions built from the query

\* the characters of the class [.*+?^${}()|[\]\\]
RegexSpecial == {".", "*", "+", "?", "^", "$", "{", "}", "(", ")", "|", "[", "]", "\\"}

\* query.replace(/[.*+?^${}()|[\]\\]/g, "\\$&")
RECURSIVE escapeQuery(_)
escapeQuery(q) ==
    IF q = <<>> THEN <<>>
    ELSE (IF Head(q) \in RegexSpecial THEN <<"\\", Head(q)>> ELSE <<Head(q)>>)
         \o escapeQuery(Tail(q))

\* new RegExp(escapedQuery, ...): the literal characters the pattern matches,
\* one per atom; an escaped character is the atom that matches it literally.
RECURSIVE RegExpAtoms(_)
RegExpAtoms(p) ==
    IF p = <<>> THEN <<>>
    ELSE IF Head(p) = "\\" /\ Len(p) >= 2
         THEN <<p[2]>> \o RegExpAtoms(SubSeq(p, 3, Len(p)))
         ELSE <<Head(p)>> \o RegExpAtoms(Tail(p))

\* the pattern matches text at index i (flag "i")
matchesAt(atoms, text, i) ==
    /\ i >= 0
    /\ i + Len(atoms) <= Len(text)
    /\ \A k \in 1..Len(atoms) : Fold(At(text, i + k - 1)) = Fold(atoms[k])

\* regex.exec(text) with the flag "g": the index of the first match at or
\* after lastIndex, -1 for null
regexExec(atoms, text, from) ==
    LET found == {i \in from..(Len(text) - Len(atoms)) : matchesAt(atoms, text, i)}
    IN  IF found = {} THEN -1 ELSE MinOf(found)

\* regex.test(text) without the flag "g"
postContainsQuery(text, q) == regexExec(RegExpAtoms(escapeQuery(q)), text, 0) # -1

\* text.replace(regex, (match) => <mark>match</mark>) with flags "gi"
RECURSIVE markFrom(_, _, _)
markFrom(atoms, text, from) ==
    LET i == regexExec(atoms, text, from)
    IN  IF i = -1 \/ Len(atoms) = 0 THEN slice(text, from, Len(text))
        ELSE slice(text, from, i) \o <<MarkOpen>> \o slice(text, i, i + Len(atoms))
             \o <<MarkClose>> \o markFrom(atoms, text, i + Len(atoms))

highlightText(text, q) == markFrom(RegExpAtoms(escapeQuery(q)), text, 0)

includesMark(html) == \E k \in 1..Len(html) : html[k] = MarkOpen

----------------------------------------------------------------------------
\* findNearestHeader

\* a header object {id, index, text}; none marks the null reduce starts from
NoHeader == [id |-> "", index |-> -2, text |-> <<>>, none |-> TRUE]
Header(id, i, text) == [id |-> id, index |-> i, text |-> text, none |-> FALSE]

\* the callback of headers.reduce
nearerHeader(nearest, current, qIndex) ==
    IF current.index <= qIndex /\ (nearest.none \/ current.index > nearest.index)
    THEN current ELSE nearest

RECURSIVE reduceHeaders(_, _, _)
reduceHeaders(hs, nearest, qIndex) ==
    IF hs = <<>> THEN nearest
    ELSE reduceHeaders(Tail(hs), nearerHeader(nearest, Head(hs), qIndex), qIndex)

findNearestHeader(qIndex, hs) == reduceHeaders(hs, NoHeader, qIndex)

\* nearestHeader ? nearestHeader.id : ""
anchorOf(nearestHeader) == IF nearestHeader.none THEN "" ELSE nearestHeader.id

----------------------------------------------------------------------------
\* getAllSnippets: one iteration of the loop

windowStart(i) == Max(0, i - contextSize)
windowEnd(text, i, q) == Min(Len(text), i + Len(q) + contextSize)

\* (mutant) the window is not extended to the left
extendLeft_none(text, start) == start

\* while (start > 0 && /\S/.test(content[start])) start--
\* start ends on the nearest index at or before it that is 0 or whitespace
extendLeft(text, start) ==
    MaxOf({j \in 0..start : j = 0 \/ isSpace(At(text, j))})

\* while (end < content.length && /\S/.test(content[end])) end++
\* end ends on the nearest index at or after it that is the length or whitespace
extendRight(text, end) ==
    MinOf({j \in end..Len(text) : j = Len(text) \/ isSpace(At(text, j))})

\* (mutant) the emphasis markers are not stripped
sanitize_keepsEmphasis(s) == trim(collapse(removeChars(s, {"<", ">"})))

\* the sanitizing chain of lines 143-147
sanitize(s) ==
    trim(collapse(removeChars(removeChars(s, {"<", ">"}), {"*", "_", "~", Backtick})))

\* (mutant) the scan resumes at the start of the window
nextLastIndex_start(start, end) == start

\* regex.lastIndex = end
nextLastIndex(start, end) == end

\* the body of the loop for the match at index i
snippetAt(text, q, hs, i) ==
    LET start == extendLeft(text, windowStart(i))
        end == extendRight(text, windowEnd(text, i, q))
        snippet == sanitize(trim(collapse(slice(text, start, end))))
        highlightedSnippet == highlightText(snippet, q)
    IN  [index |-> i, start |-> start, end |-> end,
         emit |-> includesMark(highlightedSnippet),
         text |-> (IF start > 0 THEN <<Ellipsis>> ELSE <<>>)
                  \o highlightedSnippet
                  \o (IF end < Len(text) THEN <<Ellipsis>> ELSE <<>>),
         anchor |-> anchorOf(findNearestHeader(i, hs)),
         next |-> nextLastIndex(start, end)]

\* the whole call, as displayResults uses it
RECURSIVE snippetsFrom(_, _, _, _)
snippetsFrom(text, q, hs, from) ==
    LET i == regexExec(RegExpAtoms(escapeQuery(q)), text, from)
    IN  IF i = -1 THEN <<>>
        ELSE LET s == snippetAt(text, q, hs, i)
             IN  (IF s.emit THEN <<[text |-> s.text, anchor |-> s.anchor]>> ELSE <<>>)
                 \o snippetsFrom(text, q, hs, s.next)

getAllSnippets(text, q, hs) == snippetsFrom(text, q, hs, 0)

----------------------------------------------------------------------------
\* Inputs of the scan

Filler == [k \in 1..FillLen |-> "x"]
Pieces == {<<"a", "b">>, <<"A", "b">>, <<" ">>, <<"*", "<">>, Filler}

RECURSIVE flatten(_)
flatten(ss) == IF ss = <<>> THEN <<>> ELSE Head(ss) \o flatten(Tail(ss))

\* the texts a post can have: normalized, as fetchAllPosts stores them
ScanTexts == {normalize(flatten(ps)) : ps \in UNION {[1..n -> Pieces] : n \in 1..MaxPieces}}
ScanQueries == {<<"a", "b">>, <<"b", "*">>, <<"b", " ">>}
ScanHeaders == {<<Header("s1", 0, <<>>), Header("s2", 3, <<>>)>>}

IdleScan ==
    /\ content = <<>> /\ query = <<>> /\ lastIndex = 0 /\ index = -1
    /\ snippets = <<>> /\ windows = <<>> /\ scanPc = "idle"

IdleAnchor == queryIndex = 0 /\ anchor = "" /\ anchorPc = "idle"

IdleParse == postDoc = <<>> /\ post = <<>> /\ parsePc = "idle"

IdlePage ==
    /\ manifest = <<>> /\ site = <<>>
    /\ loaderPc = "idle" /\ docTask = <<>> /\ docPost = <<>>
    /\ loadPromise = [state |-> "pending", value |-> <<>>]
    /\ thenPc = "waiting" /\ allPosts = <<>>
    /\ value = <<>> /\ events = 0
    /\ contentDisplay = "" /\ resultsDisplay = ""
    /\ panel = [message |-> FALSE, items |-> <<>>]

InitScan ==
    /\ IdleAnchor /\ IdleParse /\ IdlePage
    /\ content \in ScanTexts
    /\ query \in ScanQueries
    /\ headers \in ScanHeaders
    /\ lastIndex = 0
    /\ index = -1
    /\ snippets = <<>>
    /\ windows = <<>>
    /\ scanPc = "scan"

\* an iteration that finds a match
ScanMatch ==
    /\ scanPc = "scan"
    /\ LET i == regexExec(RegExpAtoms(escapeQuery(query)), content, lastIndex)
       IN  /\ i # -1
           /\ LET s == snippetAt(content, query, headers, i)
              IN  /\ index' = i
                  /\ lastIndex' = s.next
                  /\ IF s.emit
                     THEN /\ snippets' = Append(snippets, [text |-> s.text, anchor |-> s.anchor])
                          /\ windows' = Append(windows, [index |-> i, start |-> s.start, end |-> s.end])
                     ELSE UNCHANGED <<snippets, windows>>
    /\ UNCHANGED <<content, query, headers, scanPc>>
    /\ UNCHANGED <<anchorVars, parseVars, netVars, loadVars, uiVars>>

\* exec returns null: the loop ends (and exec resets lastIndex)
ScanExit ==
    /\ scanPc = "scan"
    /\ regexExec(RegExpAtoms(escapeQuery(query)), content, lastIndex) = -1
    /\ scanPc' = "done"
    /\ lastIndex' = 0
    /\ UNCHANGED <<content, query, headers, index, snippets, windows>>
    /\ UNCHANGED <<anchorVars, parseVars, netVars, loadVars, uiVars>>

NextScan == ScanMatch \/ ScanExit

SpecScan == InitScan /\ [][NextScan]_vars

----------------------------------------------------------------------------
\* Properties of the scan

\* C3 (as claimed): two consecutively emitted snippets come from windows
\* text[start1:end1], text[start2:end2] with start1 < start2 and end1 <= start2.
C3_WindowsDisjoint ==
    \A k \in 1..(Len(windows) - 1) :
        /\ windows[k].start < windows[k + 1].start
        /\ windows[k].end <= windows[k + 1].start

\* C6: the window of every emitted snippet starts at the start of the text or
\* on a whitespace character, and ends at the end of the text or right before
\* a whitespace character.
C6_WindowsOnWordBoundaries ==
    \A k \in 1..Len(windows) :
        /\ windows[k].start = 0 \/ isSpace(At(content, windows[k].start))
        /\ windows[k].end = Len(content) \/ isSpace(At(content, windows[k].end))

\* a snippet whose window was extended leftwards to a whitespace inside the
\* text, and a snippet whose window was extended rightwards to one
C6_Witness ==
    /\ \E k \in 1..Len(windows) :
          /\ windows[k].start > 0
          /\ windows[k].start < windowStart(windows[k].index)
    /\ \E k \in 1..Len(windows) :
          /\ windows[k].end < Len(content)
          /\ windows[k].end > windowEnd(content, windows[k].index, query)

\* C8: no emitted snippet text holds "<", ">" or an emphasis marker copied
\* from the post (the inserted <mark> tags are the only markup).
C8_SnippetsSanitized ==
    \A k \in 1..Len(snippets) :
        \A j \in 1..Len(snippets[k].text) :
            snippets[k].text[j] \notin {"<", ">", "*", "_", "~", Backtick}

\* a snippet was emitted from a window that holds "<" and "*"
C8_Witness ==
    \E k \in 1..Len(windows) :
        /\ \E j \in windows[k].start..(windows[k].end - 1) : At(content, j) = "<"
        /\ \E j \in windows[k].start..(windows[k].end - 1) : At(content, j) = "*"

\* C9: every iteration of the loop finds its match at or after the scan
\* position and leaves the scan position strictly after that match, within
\* the text: the position strictly increases, so the loop ends after at most
\* Len(content) iterations.
C9_ScanAdvances ==
    [][scanPc' = "scan" =>
        /\ index' >= lastIndex
        /\ lastIndex' > index'
        /\ lastIndex' > lastIndex
        /\ lastIndex' <= Len(content)]_vars

\* the loop has ended after at least two iterations
C9_Witness == scanPc = "done" /\ Len(windows) >= 2

----------------------------------------------------------------------------
\* findNearestHeader on its own

MaxHeaders == 3     \* a header list has at most this many headers
MaxOffset == 3      \* header offsets and match indices are at most this

HeaderIds == <<"s1", "s2", "s3", "s4">>

\* header lists with any offsets, -1 (line 251) included
HeaderLists ==
    {[k \in 1..n |-> Header(HeaderIds[k], off[k], <<>>)] :
        n \in 0..MaxHeaders, off \in [1..MaxHeaders -> -1..MaxOffset]}

InitAnchor ==
    /\ IdleParse /\ IdlePage
    /\ content = <<>> /\ query = <<>> /\ lastIndex = 0 /\ index = -1
    /\ snippets = <<>> /\ windows = <<>> /\ scanPc = "idle"
    /\ headers \in HeaderLists
    /\ queryIndex \in 0..MaxOffset
    /\ anchor = ""
    /\ anchorPc = "call"

\* lines 155 and 162
ResolveAnchor ==
    /\ anchorPc = "call"
    /\ anchor' = anchorOf(findNearestHeader(queryIndex, headers))
    /\ anchorPc' = "done"
    /\ UNCHANGED <<queryIndex, scanVars, parseVars, netVars, loadVars, uiVars>>

NextAnchor == ResolveAnchor

SpecAnchor == InitAnchor /\ [][NextAnchor]_vars

\* the headers with a resolved offset at or before the match
ResolvedBefore == {k \in 1..Len(headers) : headers[k].index # -1 /\ headers[k].index <= queryIndex}

----------------------------------------------------------------------------
\* The document a post page parses to

HeadingTags == {"h1", "h2", "h3", "h4", "h5", "h6"}

\* a child of #content: tag names the element (or its class or id, for the
\* elements the code selects by class or id), text its textContent
Node(tag, id, text) == [tag |-> tag, id |-> id, text |-> text]

\* a document without an element of id content
NoContent == [hasContent |-> FALSE, nodes |-> <<>>]
Doc(nodes) == [hasContent |-> TRUE, nodes |-> nodes]

\* const e = content.querySelector(sel); if (e) e.remove()
RECURSIVE removeFirst(_, _)
removeFirst(nodes, tag) ==
    IF nodes = <<>> THEN <<>>
    ELSE IF Head(nodes).tag = tag THEN Tail(nodes)
    ELSE <<Head(nodes)>> \o removeFirst(Tail(nodes), tag)

\* content.querySelector(".post-title a")?.textContent.trim() || ""
titleOf(nodes) ==
    LET found == {k \in 1..Len(nodes) : nodes[k].tag = "post-title"}
    IN  IF found = {} THEN <<>> ELSE trim(nodes[MinOf(found)].text)

\* lines 229-238
prune(nodes) ==
    removeFirst(removeFirst(removeFirst(removeFirst(removeFirst(nodes,
        "post-date"), "post-title"), "table-of-contents"), "taglist"), "postamble")

\* content.textContent
textContent(nodes) == flatten([k \in 1..Len(nodes) |-> nodes[k].text])

\* text.indexOf(s): case-sensitive, -1 when absent
indexOf(text, s) ==
    LET found == {i \in 0..(Len(text) - Len(s)) : slice(text, i, i + Len(s)) = s}
    IN  IF found = {} THEN -1 ELSE MinOf(found)

\* lines 245-261
headersOf(nodes, cleanContent) ==
    LET hs == SelectSeq(nodes, LAMBDA n : n.tag \in HeadingTags)
    IN  [k \in 1..Len(hs) |->
            LET headerText == normalize(hs[k].text)
            IN  Header(hs[k].id, indexOf(cleanContent, headerText), headerText)]

\* lines 222-268, for a document that has #content
parsePost(url, doc) ==
    LET pruned == prune(doc.nodes)
        cleanContent == normalize(textContent(pruned))
    IN  [url |-> url, title |-> titleOf(doc.nodes), content |-> cleanContent,
         headers |-> headersOf(pruned, cleanContent)]

MaxNodes == 3       \* a parsed document has at most this many children

NodeChoices ==
    {Node("post-title", "", <<"A", "b", " ">>),
     Node("table-of-contents", "", <<"a", "b">>),
     Node("p", "", <<"a", "b", " ">>),
     Node("p", "", <<"\n", " ">>),
     Node("h2", "s1", <<"x">>),
     Node("h2", "s2", <<" ", "a", "b">>)}

PostDocs == {Doc(ns) : ns \in UNION {[1..n -> NodeChoices] : n \in 0..MaxNodes}} \cup {NoContent}

InitParse ==
    /\ IdleScan /\ headers = <<>> /\ IdleAnchor /\ IdlePage
    /\ postDoc \in PostDocs
    /\ post = <<>>
    /\ parsePc = "parse"

\* the callback returns the post
ParseOk ==
    /\ parsePc = "parse"
    /\ postDoc.hasContent
    /\ post' = parsePost("u1", postDoc)
    /\ parsePc' = "done"
    /\ UNCHANGED <<postDoc, scanVars, anchorVars, netVars, loadVars, uiVars>>

\* content is null: line 226 throws a TypeError
ParseThrows ==
    /\ parsePc = "parse"
    /\ ~postDoc.hasContent
    /\ parsePc' = "threw"
    /\ UNCHANGED <<postDoc, post, scanVars, anchorVars, netVars, loadVars, uiVars>>

NextParse == ParseOk \/ ParseThrows

SpecParse == InitParse /\ [][NextParse]_vars

\* C7 (as claimed): the resolved offsets of a post's headers ascend in
\* document order.
C7_HeaderOffsetsAscend ==
    parsePc = "done" =>
        \A j, k \in 1..Len(post.headers) :
            (j < k /\ post.headers[j].index # -1 /\ post.headers[k].index # -1)
                => post.headers[j].index <= post.headers[k].index

----------------------------------------------------------------------------
\* The page: fetchAllPosts, the input listener, displayResults

NDocs == 2          \* the manifest lists at most this many posts
MaxEvents == 2      \* input events of one session

UrlNames == <<"u1", "u2", "u3", "u4">>

DocA ==
    Doc(<<Node("post-title", "", <<"A", "b">>),
          Node("h2", "s1", <<"x">>),
          Node("p", "", <<" ", "a", "b", "*", " ">>)>>)
DocB == Doc(<<Node("p", "", <<"b", "*">>)>>)
SiteDocs == {DocA, DocB, NoContent}

PageQueries == {<<>>, <<"a">>, <<"a", "b">>, <<"b", "*">>}

NoPost == [url |-> "", title |-> <<>>, content |-> <<>>, headers |-> <<>>]

ManifestUrls == {manifest[k] : k \in 1..Len(manifest)}

InitPage ==
    /\ IdleScan /\ headers = <<>> /\ IdleAnchor /\ IdleParse
    /\ manifest \in {[k \in 1..n |-> UrlNames[k]] : n \in 0..NDocs}
    /\ site \in [ManifestUrls -> SiteDocs]
    /\ loaderPc = "fetch"
    /\ docTask = [u \in ManifestUrls |-> "idle"]
    /\ docPost = [u \in ManifestUrls |-> NoPost]
    /\ loadPromise = [state |-> "pending", value |-> <<>>]
    /\ thenPc = "waiting"
    /\ allPosts = <<>>
    /\ value = <<>>
    /\ events = 0
    /\ contentDisplay = ""
    /\ resultsDisplay = ""
    /\ panel = [message |-> FALSE, items |-> <<>>]

\* ---- fetchAllPosts

\* line 208: the fetch of the manifest resolves
ManifestFetchOk ==
    /\ loaderPc = "fetch"
    /\ loaderPc' = "json"
    /\ UNCHANGED <<docTask, docPost, loadPromise, thenPc, allPosts>>
    /\ UNCHANGED <<scanVars, anchorVars, parseVars, netVars, uiVars>>

\* lines 213-217: the manifest is read, and every callback of postUrls.map
\* runs to its first await
ManifestJsonOk ==
    /\ loaderPc = "json"
    /\ loaderPc' = "all"
    /\ docTask' = [u \in ManifestUrls |-> "fetch"]
    /\ UNCHANGED <<docPost, loadPromise, thenPc, allPosts>>
    /\ UNCHANGED <<scanVars, anchorVars, parseVars, netVars, uiVars>>

\* lines 208 or 213 throw: the catch block returns []
ManifestFail ==
    /\ loaderPc \in {"fetch", "json"}
    /\ loaderPc' = "failed"
    /\ loadPromise' = [state |-> "fulfilled", value |-> <<>>]
    /\ UNCHANGED <<docTask, docPost, thenPc, allPosts>>
    /\ UNCHANGED <<scanVars, anchorVars, parseVars, netVars, uiVars>>

\* line 218: the fetch of one post resolves
DocFetchOk(u) ==
    /\ docTask[u] = "fetch"
    /\ docTask' = [docTask EXCEPT ![u] = "text"]
    /\ UNCHANGED <<loaderPc, docPost, loadPromise, thenPc, allPosts>>
    /\ UNCHANGED <<scanVars, anchorVars, parseVars, netVars, uiVars>>

\* (mutant) a parsed post is added to the index at once
DocTextOk_publishes(u) ==
    /\ docTask[u] = "text"
    /\ site[u].hasContent
    /\ docTask' = [docTask EXCEPT ![u] = "fulfilled"]
    /\ docPost' = [docPost EXCEPT ![u] = parsePost(u, site[u])]
    /\ allPosts' = Append(allPosts, parsePost(u, site[u]))
    /\ UNCHANGED <<loaderPc, loadPromise, thenPc>>
    /\ UNCHANGED <<scanVars, anchorVars, parseVars, netVars, uiVars>>

\* lines 219-268: the body is read and parsed, the callback returns the post
DocTextOk(u) ==
    /\ docTask[u] = "text"
    /\ site[u].hasContent
    /\ docTask' = [docTask EXCEPT ![u] = "fulfilled"]
    /\ docPost' = [docPost EXCEPT ![u] = parsePost(u, site[u])]
    /\ UNCHANGED <<loaderPc, loadPromise, thenPc, allPosts>>
    /\ UNCHANGED <<scanVars, anchorVars, parseVars, netVars, uiVars>>

\* line 218 or 219 throws (network), or line 226 does (no #content)
DocFail(u) ==
    /\ \/ docTask[u] = "fetch"
       \/ docTask[u] = "text"
    /\ docTask' = [docTask EXCEPT ![u] = "rejected"]
    /\ UNCHANGED <<loaderPc, docPost, loadPromise, thenPc, allPosts>>
    /\ UNCHANGED <<scanVars, anchorVars, parseVars, netVars, uiVars>>

\* lines 216, 272: Promise.all fulfils, fetchAllPosts returns posts
AllResolve ==
    /\ loaderPc = "all"
    /\ \A u \in ManifestUrls : docTask[u] = "fulfilled"
    /\ loaderPc' = "returned"
    /\ loadPromise' = [state |-> "fulfilled",
                       value |-> [k \in 1..Len(manifest) |-> docPost[manifest[k]]]]
    /\ UNCHANGED <<docTask, docPost, thenPc, allPosts>>
    /\ UNCHANGED <<scanVars, anchorVars, parseVars, netVars, uiVars>>

\* (mutant) a failed post is left out and the others are returned
AllReject_isolates ==
    /\ loaderPc = "all"
    /\ \E u \in ManifestUrls : docTask[u] = "rejected"
    /\ \A u \in ManifestUrls : docTask[u] \in {"fulfilled", "rejected"}
    /\ loaderPc' = "returned"
    /\ loadPromise' = [state |-> "fulfilled",
                       value |-> SelectSeq([k \in 1..Len(manifest) |-> docPost[manifest[k]]],
                                           LAMBDA p : p # NoPost)]
    /\ UNCHANGED <<docTask, docPost, thenPc, allPosts>>
    /\ UNCHANGED <<scanVars, anchorVars, parseVars, netVars, uiVars>>

\* lines 216, 273-275: Promise.all rejects with the first rejection, the catch
\* block returns []; the other callbacks go on
AllReject ==
    /\ loaderPc = "all"
    /\ \E u \in ManifestUrls : docTask[u] = "rejected"
    /\ loaderPc' = "failed"
    /\ loadPromise' = [state |-> "fulfilled", value |-> <<>>]
    /\ UNCHANGED <<docTask, docPost, thenPc, allPosts>>
    /\ UNCHANGED <<scanVars, anchorVars, parseVars, netVars, uiVars>>

\* lines 12-14
ThenCallback ==
    /\ loadPromise.state = "fulfilled"
    /\ thenPc = "waiting"
    /\ thenPc' = "ran"
    /\ allPosts' = loadPromise.value
    /\ UNCHANGED <<loaderPc, docTask, docPost, loadPromise>>
    /\ UNCHANGED <<scanVars, anchorVars, parseVars, netVars, uiVars>>

\* ---- the input listener

\* (mutant) the results panel is not hidden
showOriginalContent_keepsPanel ==
    /\ contentDisplay' = "block"
    /\ UNCHANGED resultsDisplay

\* lines 109-112
showOriginalContent ==
    /\ contentDisplay' = "block"
    /\ resultsDisplay' = "none"

\* lines 26-30
filterPosts(ps, q) ==
    SelectSeq(ps, LAMBDA p : postContainsQuery(p.title, q) \/ postContainsQuery(p.content, q))

\* lines 54-81: the item of one result, <<>> when the callback returns early
resultItem(result, q) ==
    LET title == highlightText(result.title, q)
        found == getAllSnippets(result.content, q, result.headers)
    IN  IF found = <<>> /\ ~includesMark(title) THEN <<>>
        ELSE <<[href |-> result.url, title |-> title,
                snippets |-> [k \in 1..Len(found) |->
                    [href |-> <<result.url, found[k].anchor>>, text |-> found[k].text]]]>>

\* lines 49-82: the children of searchResults
resultsPanel(results, q) ==
    IF Len(results) = 0 THEN [message |-> TRUE, items |-> <<>>]
    ELSE [message |-> FALSE,
          items |-> flatten([k \in 1..Len(results) |-> resultItem(results[k], q)])]

\* lines 48-95
displayResults(results, q) ==
    /\ panel' = resultsPanel(results, q)
    /\ contentDisplay' = "none"
    /\ resultsDisplay' = "block"

\* lines 17-33
InputEvent(q) ==
    /\ events < MaxEvents
    /\ events' = events + 1
    /\ value' = q
    /\ IF Len(q) < MinQueryLength
       THEN showOriginalContent /\ UNCHANGED panel
       ELSE displayResults(filterPosts(allPosts, q), q)
    /\ UNCHANGED <<scanVars, anchorVars, parseVars, netVars, loadVars>>

Next ==
    \/ ManifestFetchOk
    \/ ManifestJsonOk
    \/ ManifestFail
    \/ \E u \in ManifestUrls : DocFetchOk(u)
    \/ \E u \in ManifestUrls : DocTextOk(u)
    \/ \E u \in ManifestUrls : DocFail(u)
    \/ AllResolve
    \/ AllReject
    \/ ThenCallback
    \/ \E q \in PageQueries : InputEvent(q)

Spec == InitPage /\ [][Next]_vars

----------------------------------------------------------------------------
\* Properties of the page

\* the posts of all manifest documents, in manifest order
CompleteIndex == [k \in 1..Len(manifest) |-> parsePost(manifest[k], site[manifest[k]])]

\* C1: at every point where an input event can run, allPosts is empty or is
\* the complete list of the manifest's posts, never a part of it; and once the
\* callback of line 12 has published the index, allPosts never changes.
C1_IndexAtomic ==
    /\ [](\/ allPosts = <<>>
          \/ /\ \A u \in ManifestUrls : site[u].hasContent
             /\ allPosts = CompleteIndex)
    /\ [][thenPc = "ran" => allPosts' = allPosts]_vars

\* an input event searched the still empty index for a query the posts hold,
\* and the complete index of several posts was published afterwards
C1_Witness ==
    /\ Len(allPosts) >= 2
    /\ thenPc = "ran"
    /\ events >= 1
    /\ Len(value) >= MinQueryLength
    /\ panel.message
    /\ filterPosts(allPosts, value) # <<>>

\* C2: an input event with a query shorter than 2 shows the original content,
\* hides the results panel and leaves the panel's children alone; an input
\* event with a longer query shows the panel and hides the content.
C2_InputEventDisplay ==
    [][events' # events =>
        IF Len(value') < MinQueryLength
        THEN contentDisplay' = "block" /\ resultsDisplay' = "none" /\ panel' = panel
        ELSE contentDisplay' = "none" /\ resultsDisplay' = "block"]_vars

\* a short query came after a query that had listed results
C2_Witness ==
    /\ events >= 2
    /\ Len(value) < MinQueryLength
    /\ contentDisplay = "block"
    /\ resultsDisplay = "none"
    /\ panel.items # <<>>

\* the manifest or one of its documents failed to load
LoadFailed ==
    \/ loaderPc = "failed"
    \/ \E u \in ManifestUrls : docTask[u] = "rejected"

\* C5: when the manifest or any document fails to load, the index stays
\* empty, a query of length >= 2 lists nothing, and the promise of
\* fetchAllPosts is not rejected.
C5_FailureEmptiesIndex ==
    LoadFailed =>
        /\ allPosts = <<>>
        /\ loadPromise.state # "rejected"
        /\ panel.items = <<>>
        /\ (events > 0 /\ Len(value) >= MinQueryLength) =>
               (panel.message /\ resultsDisplay = "block")

\* one document failed, another was parsed and holds the query, the load has
\* ended and a query was answered
C5_Witness ==
    /\ thenPc = "ran"
    /\ events > 0
    /\ Len(value) >= MinQueryLength
    /\ \E u, v \in ManifestUrls :
          /\ docTask[u] = "rejected"
          /\ docTask[v] = "fulfilled"
          /\ filterPosts(<<docPost[v]>>, value) # <<>>

\* C10 (as claimed): after displayResults the panel holds a result item or
\* the message "No results found".
C10_PanelNeverBlank ==
    (events > 0 /\ Len(value) >= MinQueryLength) =>
        (panel.message \/ panel.items # <<>>)

====
